---- MODULE Spec2Model ----
(***************************************************************************)
(* Model of the fuzz-input record of src/src/evm/input.rs (EVMInput, its   *)
(* environment mutators, mutate, and the bridge to the native runner) and  *)
(* of the per-selector loop of decompile_with_bytecode in                  *)
(* src/externals/heimdall-rs/heimdall/src/decompile/mod.rs.                *)
(*                                                                         *)
(* A 256-bit integer is kept as ruint keeps it, as little-endian limbs;    *)
(* the limbs here are 16 bits wide (16 limbs) instead of 64 bits wide      *)
(* (4 limbs) so that a limb fits the checker's integers.  The byte         *)
(* conversions are computed from the limbs.  An address is its 20 bytes in *)
(* big-endian order, as H160 stores it.  Option values are <<>> (None)     *)
(* and <<x>> (Some(x)).                                                    *)
(***************************************************************************)
EXTENDS Integers, Sequences, FiniteSets, TLC

VARIABLES
    rec,        \* the EVMInput record
    prev,       \* the record as it was before the last operation
    call,       \* what the last operation was and what it returned
    ffi,        \* what the last bridge operation did, in order
    dec,        \* the state of decompile_with_bytecode
    copies      \* the records made of rec with Clone, oldest first

vars == <<rec, prev, call, ffi, dec, copies>>

-----------------------------------------------------------------------------
(* Widths *)

U256Bytes == 32
AddrBytes == 20
TopBytes == 16
LimbBytes == 2
LIMBS == U256Bytes \div LimbBytes
SeedHeader == 68
\* crate::evm::config::SEED_SIZE, scaled down to the calldata lengths of the model
SEED_SIZE == 70
EnvThreshold == 87
\* the values of a u8
U8Range == 256

(* Bounds of the model *)
MaxVecLen == 49
NumCallers == 2
MaxCalldata == 3
MaxSlots == 2
MaxSelectors == 3
MaxTid == 1
MaxCandidates == 257
MaxEvidence == 3
MaxClones == 2
MaxWrites == 2

InSeq(x, s) == \E k \in 1..Len(s) : s[k] = x

None == <<>>
Some(x) == <<x>>
is_some(o) == o # <<>>
unwrap(o) == o[1]

-----------------------------------------------------------------------------
(* Byte vectors and 256-bit integers *)

Pow256(k) == IF k = 0 THEN 1 ELSE 256

Reverse(s) == [i \in 1..Len(s) |-> s[Len(s) + 1 - i]]

Fill(n, b) == [i \in 1..n |-> b]

ZERO == [j \in 1..LIMBS |-> 0]

LimbAt(j, x) == [i \in 1..LIMBS |-> IF i = j THEN x ELSE 0]

\* byte i (0-based, least significant first) of the limbs v
ByteOf(v, i) == (v[(i \div LimbBytes) + 1] \div Pow256(i % LimbBytes)) % 256

to_le_bytes(v) == [i \in 1..U256Bytes |-> ByteOf(v, i - 1)]

to_be_bytes(v) == [i \in 1..U256Bytes |-> ByteOf(v, U256Bytes - i)]

\* The ruint crate is a dependency whose version the sources do not pin, and
\* its releases decode a slice longer than 32 bytes in two ways: the earlier
\* ones read it through try_from_le_byte_iter, which ignores leading zero bytes
\* and refuses only a nonzero byte beyond the last limb; the later ones refuse
\* every slice longer than 32 bytes.
Ruints == {"leading_zeros_ignored", "length_checked"}

\* Uint::try_from_be_slice as the build ruint decodes it
try_from_be_slice(bytes, ruint) ==
    LET n == Len(bytes)
        le(i) == bytes[n - i]       \* i-th byte of the reversed iterator, 0-based
    IN  IF ruint = "length_checked" /\ n > U256Bytes
        THEN None
        ELSE IF \E i \in 0..(n - 1) : le(i) # 0 /\ (i \div LimbBytes) >= LIMBS
        THEN None
        ELSE Some([j \in 1..LIMBS |->
                    (IF LimbBytes * (j - 1) < n THEN le(LimbBytes * (j - 1)) ELSE 0)
                  + (IF LimbBytes * (j - 1) + 1 < n
                        THEN le(LimbBytes * (j - 1) + 1) * 256 ELSE 0)])

\* the 16 most significant bytes of the big-endian encoding are zero
TopBytesZero(v) == \A i \in 1..TopBytes : to_be_bytes(v)[i] = 0

-----------------------------------------------------------------------------
(* Addresses, payloads, access patterns *)

\* a 20-byte address whose bytes do not read the same backwards
Addr(k) == [i \in 1..AddrBytes |-> IF i = 1 THEN k ELSE IF i = AddrBytes THEN k + 16 ELSE 0]

\* the callers the corpus state can draw (state_.get_rand_caller())
Callers == {Addr(k) : k \in 1..NumCallers}

ContractAddr == Addr(9)

CoinbaseAddr == Addr(8)

\* the ABI encoding of a payload, or the raw direct data
Payloads == {Fill(n, 170) : n \in 0..MaxCalldata}

MutatorNames == <<"caller", "balance", "call_value", "gas_price", "basefee", "timestamp",
                  "coinbase", "gas_limit", "number", "chain_id", "prevrandao">>

\* AccessPattern with the flags named in on set (balance: a non-empty list)
AP(on) == [caller |-> "caller" \in on,
           balance |-> IF "balance" \in on THEN <<ContractAddr>> ELSE <<>>,
           call_value |-> "call_value" \in on,
           gas_price |-> "gas_price" \in on,
           basefee |-> "basefee" \in on,
           timestamp |-> "timestamp" \in on,
           coinbase |-> "coinbase" \in on,
           gas_limit |-> "gas_limit" \in on,
           number |-> "number" \in on,
           chain_id |-> "chain_id" \in on,
           prevrandao |-> "prevrandao" \in on]

\* the access patterns the inputs of the model are built with
AccessPatterns ==
    {AP({}), AP({"call_value"}), AP({"basefee"}), AP({"gas_limit"}), AP({"number"}),
     AP({"chain_id"}), AP({"timestamp", "caller"}), AP({"coinbase", "caller"}),
     AP({"gas_price", "prevrandao", "balance"})}

\* 256-bit values an input is built with or set to
U256Samples == {LimbAt(1, 258), LimbAt(TopBytes \div LimbBytes + 1, 1)}

\* the contract's storage slots in the staged state (None: contract absent),
\* as the (key, value) pairs in the map's iteration order, which is any order
Slot(k) == <<LimbAt(1, k), LimbAt(LIMBS, 256 + k)>>

\* the orders a map holding the pairs of S can be iterated in
Orders(S) ==
    IF S = {} THEN {<<>>}
    ELSE {s \in [1..Cardinality(S) -> S] : \A i, j \in 1..Cardinality(S) : i # j => s[i] # s[j]}

Storages ==
    {None} \cup {Some(s) : s \in UNION {Orders({Slot(i) : i \in 1..n}) : n \in 0..MaxSlots}}

\* the allocation the Rc of the first input's access pattern points to
FirstRc == 1

\* RefCell's BorrowFlag: 0 with no borrow alive, negative with a RefMut alive,
\* positive with that many Refs alive
UNUSED == 0

WRITING == -1

\* EVMInput; env holds the fields of revm's Env the code reads or writes.
\* access_pattern: Rc<RefCell<AccessPattern>> is access_pattern_rc, the allocation
\* the Rc points to, access_pattern, the AccessPattern in its RefCell, and
\* access_pattern_borrow, the RefCell's borrow flag: UNUSED, WRITING while a RefMut
\* of it is alive, or the number of Refs alive
NewInput(ap, data, cuda) ==
    [caller |-> Addr(1),
     contract |-> ContractAddr,
     data |-> data,
     sstate |-> Some(<<Slot(1)>>),
     sstate_idx |-> 0,
     txn_value |-> None,
     step |-> FALSE,
     env |-> [block |-> [timestamp |-> LimbAt(1, 258), number |-> LimbAt(1, 1),
                         basefee |-> ZERO, gas_limit |-> LimbAt(LIMBS, 65535),
                         coinbase |-> CoinbaseAddr, prevrandao |-> None],
              cfg |-> [chain_id |-> LimbAt(1, 1)],
              tx |-> [gas_price |-> ZERO]],
     access_pattern |-> ap,
     access_pattern_rc |-> FirstRc,
     access_pattern_borrow |-> UNUSED,
     direct_data |-> Fill(1, 187),
     randomness |-> <<0>>,
     repeat |-> 1,
     cu_data |-> <<>>,
     is_cuda |-> cuda,
     branch_distance |-> 0]

-----------------------------------------------------------------------------
(* Accessors of EVMInput *)

get_txn_value(input) == input.txn_value

set_txn_value(input, v) == [input EXCEPT !.txn_value = Some(v)]

get_caller(input) == input.caller

set_caller(input, caller) == [input EXCEPT !.caller = caller]

get_contract(input) == input.contract

get_access_pattern(input) == input.access_pattern

\* get_state().get(&contract): the contract's slots, if the state has them
get_state_slots(input) == input.sstate

get_calldata(input) ==
    IF is_some(input.data) THEN unwrap(input.data) ELSE input.direct_data

set_randomness(input, v) == [input EXCEPT !.randomness = v]

set_distance(input, distance) == [input EXCEPT !.branch_distance = distance]

set_cuda_input(input, status) == [input EXCEPT !.is_cuda = status]

set_staged_state(input, state, idx) == [input EXCEPT !.sstate = state, !.sstate_idx = idx]

\* BoxedABI is not under src/; BoxedABI::new leaves the function hash [0; 4]
function_hash == Fill(4, 0)

\* what BoxedABI::get_bytes gives for a payload built with BoxedABI::new: the encoded
\* arguments, after the function hash ("function hash + encoded args") or alone
AbiBuilds == {"function_hash_first", "arguments_only"}

get_bytes(abi, args) == IF abi = "function_hash_first" THEN function_hash \o args ELSE args

\* the payload becomes AUnknown { concrete: AEmpty, size: out_size }, whose
\* arguments are those of AEmpty: none
set_as_post_exec(input, out_size, abi) == [input EXCEPT !.data = Some(get_bytes(abi, <<>>))]

\* get_vm_env_mut, get_caller_mut, get_state_mut, get_data_abi_mut hand out a
\* mutable reference to one field: the record after the holder has written x there
get_vm_env_mut(input, x) == [input EXCEPT !.env = x]

get_caller_mut(input, x) == [input EXCEPT !.caller = x]

get_state_mut(input, x) == [input EXCEPT !.sstate = x]

get_data_abi_mut(input, x) == [input EXCEPT !.data = x]

\* get_access_pattern().borrow_mut(): the holder takes a RefMut and keeps it; it
\* panics when any borrow of the cell is alive
borrow_mut(input) ==
    IF input.access_pattern_borrow # UNUSED
    THEN [rec |-> input, res |-> "Panic"]
    ELSE [rec |-> [input EXCEPT !.access_pattern_borrow = WRITING], res |-> "none"]

\* get_access_pattern().borrow(): the holder takes a Ref and keeps it; it panics
\* when a RefMut of the cell is alive
borrow(input) ==
    IF input.access_pattern_borrow < UNUSED
    THEN [rec |-> input, res |-> "Panic"]
    ELSE [rec |-> [input EXCEPT !.access_pattern_borrow = @ + 1], res |-> "none"]

\* the holder leaves x in the cell through its RefMut
deref_mut(input, x) == [input EXCEPT !.access_pattern = x]

\* the holder drops one of its Refs
drop_ref(input) == [input EXCEPT !.access_pattern_borrow = @ - 1]

\* the cell of c after a step on r: the same cell if both Rc point to one allocation
same_cell(c, r) ==
    IF c.access_pattern_rc = r.access_pattern_rc
    THEN [c EXCEPT !.access_pattern = r.access_pattern,
                   !.access_pattern_borrow = r.access_pattern_borrow]
    ELSE c

\* the holder drops its RefMut
drop_ref_mut(input) == [input EXCEPT !.access_pattern_borrow = UNUSED]

set_step_keeps_the_value_when_off(input, gate) ==
    [input EXCEPT !.txn_value = IF gate THEN None ELSE @, !.step = gate]

set_step(input, gate) == [input EXCEPT !.txn_value = None, !.step = gate]

\* #[derive(Clone)]: every field cloned; the clone of an Rc points to the same allocation
clone(input) == [f \in DOMAIN input |-> input[f]]

-----------------------------------------------------------------------------
(* The byte mutator and the payload mutator: what they can leave behind *)

VecLens == {TopBytes - 1, U256Bytes, U256Bytes + 1, MaxVecLen}

\* byte vectors the byte mutator can leave behind when it reports Mutated
MutVecs ==
    {Fill(n, 255) : n \in VecLens}
    \cup {[i \in 1..n |-> IF i = n THEN 7 ELSE 0] : n \in {U256Bytes, U256Bytes + 1}}

\* the byte mutator leaving its input alone; the builds decode alike then
NoBytes == [res |-> "Skipped", vec |-> <<>>, ruint |-> "leading_zeros_ignored"]

\* the draws of one run of the byte mutator, each with the ruint that decodes the
\* vector it leaves (the releases differ on vectors longer than 32 bytes only).
\* The release is drawn with every call: what a call can do is what it can do in
\* one build or the other
ByteMutatorChoices ==
    {NoBytes}
    \cup UNION {{[res |-> "Mutated", vec |-> v, ruint |-> u] :
                    u \in (IF Len(v) > U256Bytes THEN Ruints ELSE {"leading_zeros_ignored"})} :
                 v \in MutVecs}

\* byte_mutator(state, wrapper, vm_slots): the result and the vector left in place
byte_mutator(input_vec, c) ==
    IF c.res = "Skipped" THEN [res |-> "Skipped", vec |-> input_vec]
    ELSE [res |-> "Mutated", vec |-> c.vec]

\* the draws of one run of the payload's type-directed mutator
PayloadChoices ==
    {[res |-> "Skipped", data |-> <<>>]}
    \cup {[res |-> "Mutated", data |-> d] : d \in {Fill(1, 170), Fill(MaxCalldata, 170)}}

\* BoxedABI::mutate_with_vm_slots: Skipped leaves the payload as it was
mutate_with_vm_slots(data, pc) ==
    IF pc.res = "Skipped" THEN [res |-> "Skipped", data |-> data]
    ELSE [res |-> "Mutated", data |-> pc.data]

-----------------------------------------------------------------------------
(* The environment mutators.  An outcome is the record afterwards, the     *)
(* result (Mutated, Skipped, or Panic when the call unwinds), the vector   *)
(* the byte mutator left, the address drawn, and (filled in by the callers)*)
(* the mutator that ran and the branch mutate took.                        *)

Outcome(r, res, vec, addr) ==
    [rec |-> r, res |-> res, vec |-> vec, addr |-> addr, ran |-> "none", path |-> "none"]

\* impl_env_mutator_u256!(item, loc)
env_mutator_u256(input, loc, item, c) ==
    LET input_vec == to_be_bytes(input.env[loc][item])
        bm == byte_mutator(input_vec, c)
        decoded == try_from_be_slice(bm.vec, c.ruint)
    IN  IF bm.res = "Skipped" THEN Outcome(input, "Skipped", <<>>, <<>>)
        ELSE IF decoded = None THEN Outcome(input, "Panic", bm.vec, <<>>)
        ELSE Outcome([input EXCEPT !.env[loc][item] = unwrap(decoded)], bm.res, bm.vec, <<>>)

env_mutator_h160_write_first(input, loc, item, addr) ==
    Outcome([input EXCEPT !.env[loc][item] = addr],
            IF addr = get_caller(input) THEN "Skipped" ELSE "Mutated", <<>>, addr)

\* impl_env_mutator_h160!(item, loc): the drawn address is compared with the caller
env_mutator_h160(input, loc, item, addr) ==
    IF addr = get_caller(input) THEN Outcome(input, "Skipped", <<>>, addr)
    ELSE Outcome([input EXCEPT !.env[loc][item] = addr], "Mutated", <<>>, addr)

basefee(input, c) == env_mutator_u256(input, "block", "basefee", c)

timestamp_writes_number(input, c) == env_mutator_u256(input, "block", "number", c)

timestamp(input, c) == env_mutator_u256(input, "block", "timestamp", c)

coinbase(input, addr) == env_mutator_h160(input, "block", "coinbase", addr)

gas_limit(input, c) == env_mutator_u256(input, "block", "gas_limit", c)

number(input, c) == env_mutator_u256(input, "block", "number", c)

chain_id(input, c) == env_mutator_u256(input, "cfg", "chain_id", c)

prevrandao(input) == Outcome(input, "Skipped", <<>>, <<>>)

gas_price_sets_the_price(input) ==
    Outcome([input EXCEPT !.env.tx.gas_price = LimbAt(1, 1)], "Mutated", <<>>, <<>>)

gas_price(input) == Outcome(input, "Skipped", <<>>, <<>>)

balance(input) == Outcome(input, "Skipped", <<>>, <<>>)

caller(input, addr) ==
    IF addr = get_caller(input) THEN Outcome(input, "Skipped", <<>>, addr)
    ELSE Outcome(set_caller(input, addr), "Mutated", <<>>, addr)

call_value(input, c) ==
    LET v == IF is_some(get_txn_value(input)) THEN unwrap(get_txn_value(input)) ELSE ZERO
        input_vec == to_be_bytes(v)
        bm == byte_mutator(input_vec, c)
        \* for i in 0..16 { input_vec[i] = 0 }
        zeroed == [i \in 1..Len(bm.vec) |-> IF i <= TopBytes THEN 0 ELSE bm.vec[i]]
        decoded == try_from_be_slice(zeroed, c.ruint)
    IN  IF bm.res = "Skipped" THEN Outcome(input, "Skipped", <<>>, <<>>)
        ELSE IF Len(bm.vec) < TopBytes THEN Outcome(input, "Panic", bm.vec, <<>>)
        ELSE IF decoded = None THEN Outcome(input, "Panic", bm.vec, <<>>)
        ELSE Outcome(set_txn_value(input, unwrap(decoded)), bm.res, bm.vec, <<>>)

RunMutator(name, input, c, addr) ==
    CASE name = "caller" -> caller(input, addr)
      [] name = "balance" -> balance(input)
      [] name = "call_value" -> call_value(input, c)
      [] name = "gas_price" -> gas_price(input)
      [] name = "basefee" -> basefee(input, c)
      [] name = "timestamp" -> timestamp(input, c)
      [] name = "coinbase" -> coinbase(input, addr)
      [] name = "gas_limit" -> gas_limit(input, c)
      [] name = "number" -> number(input, c)
      [] name = "chain_id" -> chain_id(input, c)
      [] name = "prevrandao" -> prevrandao(input)

Enabled_whatever_the_pattern(self, name) == TRUE

\* the condition under which add_mutator! pushes the mutator
Enabled(self, name) ==
    LET ap == get_access_pattern(self)
    IN  CASE name = "caller" -> ap.caller
          [] name = "balance" -> Len(ap.balance) > 0
          [] name = "call_value" -> ap.call_value \/ is_some(get_txn_value(self))
          [] name = "gas_price" -> ap.gas_price
          [] name = "basefee" -> ap.basefee
          [] name = "timestamp" -> ap.timestamp
          [] name = "coinbase" -> ap.coinbase
          [] name = "gas_limit" -> ap.gas_limit
          [] name = "number" -> ap.number
          [] name = "chain_id" -> ap.chain_id
          [] name = "prevrandao" -> ap.prevrandao

\* the vector mutators, in push order
Mutators(self) == SelectSeq(MutatorNames, LAMBDA name : Enabled(self, name))

\* what rand.below(n) can return (nothing is drawn when n = 0)
Below(n) == IF n = 0 THEN {0} ELSE 0..(n - 1)

mutate_env_taking_the_pattern(self, pick, c, addr) ==
    LET mutators == Mutators(self)
    IN  IF Len(mutators) = 0
        THEN Outcome(self, "Skipped", <<>>, <<>>)
        ELSE [RunMutator(mutators[pick + 1], self, c, addr)
                EXCEPT !.ran = mutators[pick + 1], !.rec.access_pattern = AP({})]

\* mutate_env_with_access_pattern; pick is the value of below(mutators.len()).
\* The access pattern is read through borrow() and cloned
mutate_env_with_access_pattern(self, pick, c, addr) ==
    LET mutators == Mutators(self)
    IN  \* borrow() panics while a RefMut of the cell is alive
        IF self.access_pattern_borrow < UNUSED
        THEN Outcome(self, "Panic", <<>>, <<>>)
        ELSE IF Len(mutators) = 0
        THEN Outcome(self, "Skipped", <<>>, <<>>)
        ELSE [RunMutator(mutators[pick + 1], self, c, addr) EXCEPT !.ran = mutators[pick + 1]]

mutate_by_chance_only(self, r, pick, c, addr, pc) ==
    IF ~self.is_cuda /\ r % 100 > EnvThreshold
    THEN [mutate_env_with_access_pattern(self, pick, c, addr) EXCEPT !.path = "env"]
    ELSE IF is_some(self.data)
    THEN LET a == mutate_with_vm_slots(unwrap(self.data), pc)
         IN  [Outcome([self EXCEPT !.data = Some(a.data)], a.res, <<>>, <<>>)
                EXCEPT !.path = "payload"]
    ELSE Outcome(self, "Skipped", <<>>, <<>>)

\* VMInputT::mutate; r is the value of rand.next()
mutate(self, r, pick, c, addr, pc) ==
    IF ~self.is_cuda /\ (r % 100 > EnvThreshold \/ ~is_some(self.data))
    THEN [mutate_env_with_access_pattern(self, pick, c, addr) EXCEPT !.path = "env"]
    ELSE IF is_some(self.data)
    THEN LET a == mutate_with_vm_slots(unwrap(self.data), pc)
         IN  [Outcome([self EXCEPT !.data = Some(a.data)], a.res, <<>>, <<>>)
                EXCEPT !.path = "payload"]
    ELSE Outcome(self, "Skipped", <<>>, <<>>)

-----------------------------------------------------------------------------
(* The fuzzer's use of one input: mutations and setters *)

\* n counts the direct uses so far (the setters, the borrows and writes through a handed-out
\* reference, the mutators called one by one), which MaxWrites bounds
NoCall == [op |-> "new", res |-> "none", ran |-> "none", path |-> "none",
           vec |-> <<>>, addr |-> <<>>, gate |-> None, n |-> 0]

\* the record of a call: the operation and what its outcome reports
Called(op, o) == [op |-> op, res |-> o.res, ran |-> o.ran, path |-> o.path,
                  vec |-> o.vec, addr |-> o.addr, gate |-> None, n |-> call.n]

DecIdle == [pc |-> "idle"]

Inputs == {NewInput(ap, data, cuda) :
             ap \in AccessPatterns, data \in {None, Some(Fill(2, 170))}, cuda \in BOOLEAN}

Init ==
    /\ rec \in Inputs
    /\ prev = rec
    /\ call = NoCall
    /\ ffi = <<>>
    /\ copies = <<>>
    /\ dec = DecIdle

\* values of rand.next() on both sides of the threshold
RandSamples == {100 + EnvThreshold, EnvThreshold + 1}

UsesBytes(name) == name \in {"call_value", "basefee", "timestamp", "gas_limit", "number", "chain_id"}

UsesAddr(name) == name \in {"caller", "coinbase"}

\* the draws the mutator picked by below() = pick makes
ByteDraws(self, pick) ==
    IF Len(Mutators(self)) > 0 /\ UsesBytes(Mutators(self)[pick + 1])
    THEN ByteMutatorChoices ELSE {NoBytes}

AddrDraws(self, pick) ==
    IF Len(Mutators(self)) > 0 /\ UsesAddr(Mutators(self)[pick + 1])
    THEN Callers ELSE {Addr(1)}

Alive == call.res # "Panic"

MutateEnv ==
    /\ Alive
    /\ \E pick \in Below(Len(Mutators(rec))) :
       \E c \in ByteDraws(rec, pick) : \E addr \in AddrDraws(rec, pick) :
          \E o \in {mutate_env_with_access_pattern(rec, pick, c, addr)} :
              /\ rec' = o.rec
              /\ prev' = rec
              /\ call' = Called("mutate_env", o)
    /\ UNCHANGED <<ffi, dec, copies>>

Mutate ==
    /\ Alive
    /\ \E r \in RandSamples :
       LET env == ~rec.is_cuda /\ (r % 100 > EnvThreshold \/ ~is_some(rec.data))
       IN  \E pick \in (IF env THEN Below(Len(Mutators(rec))) ELSE {0}) :
           \E c \in (IF env THEN ByteDraws(rec, pick) ELSE {NoBytes}) :
           \E addr \in (IF env THEN AddrDraws(rec, pick) ELSE {Addr(1)}) :
           \E pc \in (IF env THEN {[res |-> "Skipped", data |-> <<>>]} ELSE PayloadChoices) :
           \E o \in {mutate(rec, r, pick, c, addr, pc)} :
                  /\ rec' = o.rec
                  /\ prev' = rec
                  /\ call' = Called("mutate", o)
    /\ UNCHANGED <<ffi, dec, copies>>

SetTxnValue ==
    /\ Alive
    /\ \E v \in U256Samples :
          /\ rec' = set_txn_value(rec, v)
          /\ prev' = rec
          /\ call' = [NoCall EXCEPT !.op = "set_txn_value", !.n = call.n]
    /\ UNCHANGED <<ffi, dec, copies>>

Next == MutateEnv \/ Mutate \/ SetTxnValue

Spec == Init /\ [][Next]_vars

\* VMInputT::set_step
SetStep ==
    /\ Alive
    /\ \E gate \in BOOLEAN :
          /\ rec' = set_step(rec, gate)
          /\ prev' = rec
          /\ call' = [NoCall EXCEPT !.op = "set_step", !.gate = Some(gate), !.n = call.n]
    /\ UNCHANGED <<ffi, dec, copies>>

\* the fuzzer stepping an input: set_step among the setters and the mutations
NextStep == SetStep \/ SetTxnValue \/ MutateEnv

SpecStep == Init /\ [][NextStep]_vars

\* input.clone(): one more record, kept next to rec
Clone ==
    /\ Alive
    /\ Len(copies) < MaxClones
    /\ copies' = Append(copies, clone(rec))
    /\ prev' = rec
    /\ call' = [NoCall EXCEPT !.op = "clone", !.n = call.n]
    /\ UNCHANGED <<rec, ffi, dec>>

\* the fuzzer cloning an input between mutations
NextClone == Clone \/ MutateEnv

SpecClone == Init /\ [][NextClone]_vars

\* values the fuzzer hands to the setters
RandomnessSamples == {<<1, 2>>}

DistanceSamples == {7}

StagedStates == {<<Some(<<Slot(2)>>), 3>>}

OutSizes == {0}

\* what the holder of a mutable reference writes
EnvWrites(env) == {[env EXCEPT !.block.number = LimbAt(1, 5)]}

CallerWrites == {Addr(NumCallers)}

StateWrites == {Some(<<Slot(2)>>)}

DataWrites == {None}

PatternWrites(ap) == {[ap EXCEPT !.number = TRUE]}

SetRandomness ==
    /\ Alive
    /\ call.n < MaxWrites
    /\ \E v \in RandomnessSamples :
          /\ rec' = set_randomness(rec, v)
          /\ prev' = rec
          /\ call' = [NoCall EXCEPT !.op = "set_randomness", !.n = call.n + 1]
    /\ UNCHANGED <<ffi, dec, copies>>

SetDistance ==
    /\ Alive
    /\ call.n < MaxWrites
    /\ \E distance \in DistanceSamples :
          /\ rec' = set_distance(rec, distance)
          /\ prev' = rec
          /\ call' = [NoCall EXCEPT !.op = "set_distance", !.n = call.n + 1]
    /\ UNCHANGED <<ffi, dec, copies>>

SetCudaInput ==
    /\ Alive
    /\ call.n < MaxWrites
    /\ \E status \in BOOLEAN :
          /\ rec' = set_cuda_input(rec, status)
          /\ prev' = rec
          /\ call' = [NoCall EXCEPT !.op = "set_cuda_input", !.n = call.n + 1]
    /\ UNCHANGED <<ffi, dec, copies>>

SetCaller ==
    /\ Alive
    /\ call.n < MaxWrites
    /\ \E a \in Callers :
          /\ rec' = set_caller(rec, a)
          /\ prev' = rec
          /\ call' = [NoCall EXCEPT !.op = "set_caller", !.n = call.n + 1]
    /\ UNCHANGED <<ffi, dec, copies>>

SetStagedState ==
    /\ Alive
    /\ call.n < MaxWrites
    /\ \E st \in StagedStates :
          /\ rec' = set_staged_state(rec, st[1], st[2])
          /\ prev' = rec
          /\ call' = [NoCall EXCEPT !.op = "set_staged_state", !.n = call.n + 1]
    /\ UNCHANGED <<ffi, dec, copies>>

SetAsPostExec ==
    /\ Alive
    /\ call.n < MaxWrites
    /\ \E out_size \in OutSizes : \E abi \in AbiBuilds :
          /\ rec' = set_as_post_exec(rec, out_size, abi)
          /\ prev' = rec
          /\ call' = [NoCall EXCEPT !.op = "set_as_post_exec", !.n = call.n + 1]
    /\ UNCHANGED <<ffi, dec, copies>>

GetVmEnvMut ==
    /\ Alive
    /\ call.n < MaxWrites
    /\ \E x \in EnvWrites(rec.env) :
          /\ rec' = get_vm_env_mut(rec, x)
          /\ prev' = rec
          /\ call' = [NoCall EXCEPT !.op = "get_vm_env_mut", !.n = call.n + 1]
    /\ UNCHANGED <<ffi, dec, copies>>

GetCallerMut ==
    /\ Alive
    /\ call.n < MaxWrites
    /\ \E x \in CallerWrites :
          /\ rec' = get_caller_mut(rec, x)
          /\ prev' = rec
          /\ call' = [NoCall EXCEPT !.op = "get_caller_mut", !.n = call.n + 1]
    /\ UNCHANGED <<ffi, dec, copies>>

GetStateMut ==
    /\ Alive
    /\ call.n < MaxWrites
    /\ \E x \in StateWrites :
          /\ rec' = get_state_mut(rec, x)
          /\ prev' = rec
          /\ call' = [NoCall EXCEPT !.op = "get_state_mut", !.n = call.n + 1]
    /\ UNCHANGED <<ffi, dec, copies>>

GetDataAbiMut ==
    /\ Alive
    /\ call.n < MaxWrites
    /\ \E x \in DataWrites :
          /\ rec' = get_data_abi_mut(rec, x)
          /\ prev' = rec
          /\ call' = [NoCall EXCEPT !.op = "get_data_abi_mut", !.n = call.n + 1]
    /\ UNCHANGED <<ffi, dec, copies>>

\* the holder of the handle get_access_pattern returns takes a RefMut; the cell is
\* that of every record whose Rc points to the same allocation
BorrowMut ==
    /\ Alive
    /\ call.n < MaxWrites
    /\ \E o \in {borrow_mut(rec)} :
          /\ rec' = o.rec
          /\ copies' = [k \in DOMAIN copies |-> same_cell(copies[k], o.rec)]
          /\ prev' = rec
          /\ call' = [NoCall EXCEPT !.op = "borrow_mut", !.res = o.res, !.n = call.n + 1]
    /\ UNCHANGED <<ffi, dec>>

\* the holder of the handle takes a Ref
Borrow ==
    /\ Alive
    /\ call.n < MaxWrites
    /\ \E o \in {borrow(rec)} :
          /\ rec' = o.rec
          /\ copies' = [k \in DOMAIN copies |-> same_cell(copies[k], o.rec)]
          /\ prev' = rec
          /\ call' = [NoCall EXCEPT !.op = "borrow", !.res = o.res, !.n = call.n + 1]
    /\ UNCHANGED <<ffi, dec>>

\* the holder writes the flags through the RefMut it keeps
DerefMut ==
    /\ Alive
    /\ rec.access_pattern_borrow = WRITING
    /\ \E x \in PatternWrites(rec.access_pattern) :
       \E r \in {deref_mut(rec, x)} :
          /\ rec' = r
          /\ copies' = [k \in DOMAIN copies |-> same_cell(copies[k], r)]
          /\ prev' = rec
          /\ call' = [NoCall EXCEPT !.op = "deref_mut", !.n = call.n]
    /\ UNCHANGED <<ffi, dec>>

\* the holder drops the RefMut it took
DropRefMut ==
    /\ Alive
    /\ rec.access_pattern_borrow = WRITING
    /\ \E r \in {drop_ref_mut(rec)} :
          /\ rec' = r
          /\ copies' = [k \in DOMAIN copies |-> same_cell(copies[k], r)]
    /\ prev' = rec
    /\ call' = [NoCall EXCEPT !.op = "drop_ref_mut", !.n = call.n]
    /\ UNCHANGED <<ffi, dec>>

\* the holder drops a Ref it took
DropRef ==
    /\ Alive
    /\ rec.access_pattern_borrow > UNUSED
    /\ \E r \in {drop_ref(rec)} :
          /\ rec' = r
          /\ copies' = [k \in DOMAIN copies |-> same_cell(copies[k], r)]
    /\ prev' = rec
    /\ call' = [NoCall EXCEPT !.op = "drop_ref", !.n = call.n]
    /\ UNCHANGED <<ffi, dec>>

\* one of the pub mutators called by itself: no access pattern is consulted
CallMutator ==
    /\ Alive
    /\ call.n < MaxWrites
    /\ \E k \in 1..Len(MutatorNames) :
       \E c \in (IF UsesBytes(MutatorNames[k]) THEN ByteMutatorChoices ELSE {NoBytes}) :
       \E addr \in (IF UsesAddr(MutatorNames[k]) THEN Callers ELSE {Addr(1)}) :
       \E o \in {[RunMutator(MutatorNames[k], rec, c, addr) EXCEPT !.ran = MutatorNames[k]]} :
          /\ rec' = o.rec
          /\ prev' = rec
          /\ call' = [Called("mutator", o) EXCEPT !.n = call.n + 1]
    /\ UNCHANGED <<ffi, dec, copies>>

\* the input the setters are exercised on
SetterInputs == {NewInput(AP({}), None, FALSE)}

InitSetters ==
    /\ rec \in SetterInputs
    /\ prev = rec
    /\ call = NoCall
    /\ ffi = <<>>
    /\ copies = <<>>
    /\ dec = DecIdle

\* the fuzzer's use of one input with the functions of EVMInputT, VMInputT and
\* impl EVMInput that write the fields kept here, each at most MaxWrites times for
\* the direct writes (set_liquidation_percent writes a feature-gated field that no
\* operation here reads)
NextSetters ==
    \/ SetRandomness
    \/ SetDistance
    \/ SetCudaInput
    \/ SetCaller
    \/ SetStagedState
    \/ SetAsPostExec
    \/ GetVmEnvMut
    \/ GetCallerMut
    \/ GetStateMut
    \/ GetDataAbiMut
    \/ BorrowMut
    \/ Borrow
    \/ DerefMut
    \/ DropRefMut
    \/ DropRef
    \/ CallMutator
    \/ SetTxnValue
    \/ SetStep
    \/ MutateEnv
    \/ Mutate

SpecSetters == InitSetters /\ [][NextSetters]_vars

-----------------------------------------------------------------------------
(* The bridge to the native runner.  An operation yields the events it     *)
(* causes, in order: a println, or a call of a native symbol with the      *)
(* bytes behind each pointer argument and the value the runner returned.   *)

Event(kind, fn, args, ret) == [kind |-> kind, fn |-> fn, args |-> args, ret |-> ret]

\* the slots' bytes: [key.as_le_bytes(), value.as_le_bytes()].concat(), slot after slot
RECURSIVE SlotBytes(_)
SlotBytes(storage) ==
    IF storage = <<>> THEN <<>>
    ELSE to_le_bytes(Head(storage)[1]) \o to_le_bytes(Head(storage)[2]) \o SlotBytes(Tail(storage))

\* EVMInputT::cu_load_evm_env; ok is what setEVMEnv returns (the code drops it)
cu_load_evm_env(self, ok) ==
    LET block == self.env.block
        timestamp_ == to_le_bytes(block.timestamp)
        blocknum == to_le_bytes(block.number)
        to == Reverse(get_contract(self))
    IN  <<Event("call", "setEVMEnv", <<to, timestamp_, blocknum>>, ok)>>

cu_load_input_stops_when_oversized(self, tid) ==
    IF SeedHeader + Len(get_calldata(self)) > SEED_SIZE
    THEN <<Event("println", "println", <<SeedHeader + Len(get_calldata(self)), SEED_SIZE>>, "unit")>>
    ELSE <<Event("call", "cuLoadSeed",
                 <<Reverse(get_caller(self)),
                   to_le_bytes(IF is_some(get_txn_value(self))
                                  THEN unwrap(get_txn_value(self)) ELSE ZERO),
                   get_calldata(self), Len(get_calldata(self)), 0, tid>>, "unit")>>

\* EVMInputT::cu_load_input
cu_load_input(self, tid) ==
    LET caller_ == Reverse(get_caller(self))
        callvalue == to_le_bytes(IF is_some(get_txn_value(self))
                                    THEN unwrap(get_txn_value(self)) ELSE ZERO)
        calldata == get_calldata(self)
        calldatasize == Len(calldata)
    IN  (IF SeedHeader + calldatasize > SEED_SIZE
            THEN <<Event("println", "println", <<SeedHeader + calldatasize, SEED_SIZE>>, "unit")>>
            ELSE <<>>)
        \o <<Event("call", "cuLoadSeed",
                   <<caller_, callvalue, calldata, calldatasize, 0, tid>>, "unit")>>

\* EVMInputT::cu_load_storage
cu_load_storage(self, state_id) ==
    IF is_some(get_state_slots(self))
    THEN <<Event("call", "cuLoadStorage",
                 <<SlotBytes(unwrap(get_state_slots(self))),
                   Len(unwrap(get_state_slots(self))), state_id>>, "unit")>>
    ELSE <<Event("call", "cuLoadStorage", <<<<>>, 0, state_id>>, "unit")>>

\* VMInputT::set_evm_env: the addresses go out as to_fixed_bytes() gives them
set_evm_env(self, ok) ==
    LET block == self.env.block
        timestamp_ == to_le_bytes(block.timestamp)
        blocknum == to_le_bytes(block.number)
        to == get_contract(self)
        caller_ == get_caller(self)
    IN  <<Event("call", "setEVMEnv", <<caller_, to, timestamp_, blocknum>>, ok)>>

BridgeInputs ==
    {[NewInput(AP({}), data, TRUE) EXCEPT
         !.txn_value = tv, !.caller = c, !.sstate = st,
         !.direct_data = dd, !.env.block.number = n] :
       data \in {None} \cup {Some(d) : d \in Payloads},
       tv \in {None} \cup {Some(v) : v \in U256Samples},
       c \in Callers, st \in Storages,
       dd \in {Fill(1, 187), Fill(MaxCalldata, 187)}, n \in U256Samples}

InitBridge ==
    /\ rec \in BridgeInputs
    /\ prev = rec
    /\ call = NoCall
    /\ ffi = <<>>
    /\ copies = <<>>
    /\ dec = DecIdle

Tids == 0..MaxTid

\* the bridge operations borrow the record: none of them writes it
CuLoadEvmEnv ==
    /\ \E ok \in {"true", "false"} : ffi' = cu_load_evm_env(rec, ok)
    /\ call' = [NoCall EXCEPT !.op = "cu_load_evm_env", !.res = "unit"]
    /\ prev' = rec
    /\ UNCHANGED <<rec, dec, copies>>

CuLoadInput ==
    /\ \E tid \in Tids : ffi' = cu_load_input(rec, tid)
    /\ call' = [NoCall EXCEPT !.op = "cu_load_input", !.res = "unit"]
    /\ prev' = rec
    /\ UNCHANGED <<rec, dec, copies>>

CuLoadStorage ==
    /\ \E state_id \in Tids : ffi' = cu_load_storage(rec, state_id)
    /\ call' = [NoCall EXCEPT !.op = "cu_load_storage", !.res = "unit"]
    /\ prev' = rec
    /\ UNCHANGED <<rec, dec, copies>>

\* returns &self.env whatever setEVMEnv returned
SetEvmEnv ==
    /\ \E ok \in {"true", "false"} : ffi' = set_evm_env(rec, ok)
    /\ call' = [NoCall EXCEPT !.op = "set_evm_env", !.res = "env"]
    /\ prev' = rec
    /\ UNCHANGED <<rec, dec, copies>>

NextBridge == CuLoadEvmEnv \/ CuLoadInput \/ CuLoadStorage \/ SetEvmEnv

SpecBridge == InitBridge /\ [][NextBridge]_vars

-----------------------------------------------------------------------------
(* decompile_with_bytecode: the per-selector loop.  The selector finder,   *)
(* the entry-point resolver, the symbolic executor and the analyzer are    *)
(* called, not modelled: what they return is drawn.                        *)

skip_resolving_off == FALSE

skip_resolving == TRUE

default_val == TRUE

Selectors == 1..MaxSelectors

\* the selector lists find_function_selectors can return; it is not under src/, and
\* by its contract duplicates collapse to the first occurrence: no list has a repeat
SelectorLists ==
    {sl \in UNION {[1..n -> Selectors] : n \in 0..MaxSelectors} :
        \A a, b \in 1..Len(sl) : a # b => sl[a] # sl[b]}

\* entry points resolve_entry_point can return; 0: none found
EntryPoints == {0, 64}

\* HashMap::insert
insert(m, k, v) == [x \in DOMAIN m \cup {k} |-> IF x = k THEN v ELSE m[x]]

\* the Function literal handed to map.analyze (events, errors: HashMap::new())
NewFunction(selector, function_entry_point) ==
    [selector |-> selector, entry_point |-> function_entry_point,
     events |-> <<>>, errors |-> <<>>, resolved_function |-> None,
     pure |-> TRUE, view |-> TRUE, payable |-> FALSE]

\* what the analyzer meets on the branch map: a storage read, a storage write, an
\* environment read, a LOG, a CALL with value, the proof that value is accepted (no
\* early revert when CALLVALUE is not 0), a REVERT with a custom error
Evidence == {"SLOAD", "SSTORE", "ENVREAD", "LOG", "CALL", "ACCEPT", "REVERT"}

\* one step of the traversal: the flag rules, and the event or error registered
observe(function, e) ==
    [function EXCEPT
        !.pure = @ /\ e \notin {"SLOAD", "SSTORE", "ENVREAD"},
        !.view = @ /\ e \notin {"SSTORE", "LOG", "CALL"},
        !.payable = @ \/ e = "ACCEPT",
        !.events = IF e = "LOG" THEN insert(@, "topic", <<None, "raw">>) ELSE @,
        !.errors = IF e = "REVERT" THEN insert(@, "error", None) ELSE @]

\* map.analyze(function, ..): the function record after the traversal of evidence
RECURSIVE analyze(_, _)
analyze(function, evidence) ==
    IF evidence = <<>> THEN function
    ELSE analyze(observe(function, Head(evidence)), Tail(evidence))

\* the branch maps the loop's functions are analyzed from
Traversals == {<<>>, <<"SLOAD">>, <<"SSTORE", "ACCEPT">>, <<"LOG">>, <<"REVERT">>}

is_false_positive_never(function_entry_point) == FALSE

\* the test of the resolved entry point that flags a false positive
is_false_positive(function_entry_point) == function_entry_point = 0

\* the locals before the loop; resolver_called: resolve_function_selectors was
\* called to fill resolved_selectors (if !skip_resolving); lookups and selection
\* record what the resolving branch drew and chose
DecStarted(selectors) ==
    [pc |-> "loop", skip_resolving |-> skip_resolving, resolver_called |-> ~skip_resolving,
     selectors |-> selectors, i |-> 1,
     function_entry_point |-> 0,
     entry_points |-> <<>>, executed |-> <<>>, analyzed |-> <<>>,
     analyzed_function |-> None, analyzed_functions |-> <<>>, trace |-> <<>>,
     lookups |-> <<>>, selection |-> None, output |-> None]

InitDecompile ==
    /\ rec = NewInput(AP({}), None, FALSE)
    /\ prev = rec
    /\ call = NoCall
    /\ ffi = <<>>
    /\ copies = <<>>
    /\ dec \in {DecStarted(sl) : sl \in SelectorLists}

\* for selector in selectors.clone(): resolve_entry_point, or leave the loop
DecResolveEntryPoint ==
    /\ dec.pc = "loop"
    /\ dec.i <= Len(dec.selectors)
    /\ \E e \in EntryPoints :
          dec' = [dec EXCEPT !.pc = "check", !.function_entry_point = e,
                             !.entry_points = Append(@, e),
                             !.trace = Append(@, <<"info", dec.selectors[dec.i], e>>)]
    /\ UNCHANGED <<rec, prev, call, ffi, copies>>

\* if function_entry_point == 0 { trace.add_error(..); continue; }
DecCheckEntryPoint ==
    /\ dec.pc = "check"
    /\ IF is_false_positive(dec.function_entry_point)
       THEN dec' = [dec EXCEPT !.pc = "loop", !.i = @ + 1,
                               !.trace = Append(@, <<"error", dec.selectors[dec.i],
                                                     "selector flagged as false-positive.">>)]
       ELSE dec' = [dec EXCEPT !.pc = "map"]
    /\ UNCHANGED <<rec, prev, call, ffi, copies>>

\* map_selector: the symbolic execution from the entry point
DecMapSelector ==
    /\ dec.pc = "map"
    /\ dec' = [dec EXCEPT !.pc = "analyze", !.executed = Append(@, dec.selectors[dec.i])]
    /\ UNCHANGED <<rec, prev, call, ffi, copies>>

\* map.analyze(Function {..}); then the blocks under if !skip_resolving, or the push
DecAnalyze ==
    /\ dec.pc = "analyze"
    /\ \E evidence \in Traversals :
          dec' = [dec EXCEPT
                    !.pc = IF dec.skip_resolving THEN "push" ELSE "resolve",
                    !.analyzed = Append(@, dec.selectors[dec.i]),
                    !.analyzed_function =
                        Some(analyze(NewFunction(dec.selectors[dec.i],
                                                 dec.function_entry_point), evidence))]
    /\ UNCHANGED <<rec, prev, call, ffi, copies>>

-----------------------------------------------------------------------------
(* The blocks under if !skip_resolving.  skip_resolving is bound to true    *)
(* before the loop and never assigned, so DecAnalyze never leaves the loop *)
(* at "resolve" and the three actions of this section are never enabled:   *)
(* they are no disjuncts of NextDecompile.  The resolvers, the parameter   *)
(* matcher and the logger's prompt are called, not modelled: the           *)
(* candidates the resolvers return, the candidates the matcher keeps and   *)
(* the order a HashMap is iterated in are drawn.                           *)

\* usize as u8
as_u8(n) == n % U8Range

\* n resolved signatures, in the order the resolver ranks them
Signatures(n) == [k \in 1..n |-> k]

CandidateLens == {0, 1, 2, MaxCandidates}

\* resolved_selectors.get(&selector), resolve_error_signature, resolve_event_signature
Lookups == {None} \cup {Some(Signatures(n)) : n \in CandidateLens}

\* the sets of candidates the matcher can find compatible with the function
Compatible(resolved_functions) ==
    LET all == {resolved_functions[k] : k \in 1..Len(resolved_functions)}
    IN  IF all = {} THEN {{}} ELSE {all, {}, all \ {resolved_functions[1]}}

\* match_parameters(resolved_functions, &analyzed_function): a filter
match_parameters(resolved_functions, compatible) ==
    SelectSeq(resolved_functions, LAMBDA f : f \in compatible)

\* Logger::option(.., default, skip): the default when skip is set, else the answer
option(default, skip, answer) == IF skip THEN default ELSE answer

\* Vec::get
get(v, index) == IF index < Len(v) THEN Some(v[index + 1]) ELSE None

\* the choice among the candidates: the index, whether the prompt was called, the
\* candidate at the index (None: "invalid selection.", exit)
select(kind, candidates) ==
    LET n == Len(candidates)
        index == IF n > 1 THEN option(as_u8(n - 1), default_val, 0) ELSE 0
    IN  [kind |-> kind, n |-> n, prompted |-> n > 1, index |-> index,
         selected_match |-> get(candidates, index)]

\* the first block: the lookup of the selector, the match, the choice
resolve_function(d, lookup, compatible) ==
    LET selector == d.selectors[d.i]
    IN  IF lookup = None
        THEN \* trace.add_error(..); continue
             [d EXCEPT !.pc = "loop", !.i = @ + 1, !.analyzed_function = None,
                       !.lookups = Append(@, [selector |-> selector, found |-> FALSE,
                                              matched |-> 0]),
                       !.trace = Append(@, <<"error", selector, "failed to resolve function.">>)]
        ELSE LET matched == match_parameters(unwrap(lookup), compatible)
             IN  IF Len(matched) = 0
                 THEN [d EXCEPT !.pc = "errors",
                                !.lookups = Append(@, [selector |-> selector, found |-> TRUE,
                                                       matched |-> 0]),
                                !.trace = Append(@, <<"warn", selector,
                                    "no resolved signatures matched this function's parameters">>)]
                 ELSE IF select("function", matched).selected_match = None
                 THEN [d EXCEPT !.pc = "exit", !.selection = Some(select("function", matched))]
                 ELSE [d EXCEPT !.pc = "errors",
                                !.lookups = Append(@, [selector |-> selector, found |-> TRUE,
                                                       matched |-> Len(matched)]),
                                !.analyzed_function[1].resolved_function =
                                    select("function", matched).selected_match,
                                !.selection = Some(select("function", matched)),
                                !.trace = Append(@, <<"info", selector, Len(matched)>>)]

\* one of the loops over the function's error selectors or event topics; order is
\* the order the clone of the HashMap is iterated in and resolved gives each key what
\* its resolver returned.  The loop ends the process at the first key whose choice is
\* invalid.  The result: the signature inserted for each key (None: left as it was),
\* the count of the keys resolved, and the choice made last
resolve_signatures(kind, order, resolved) ==
    LET n == Len(order)
        hit(j) == resolved[order[j]] # None
        sel(j) == select(kind, unwrap(resolved[order[j]]))
        bad == {j \in 1..n : hit(j) /\ sel(j).selected_match = None}
        stop == IF bad = {} THEN n + 1 ELSE CHOOSE j \in bad : \A x \in bad : j <= x
        done == {j \in 1..n : j < stop /\ hit(j)}
        final == IF bad # {} THEN stop
                 ELSE IF done = {} THEN 0
                 ELSE CHOOSE j \in done : \A x \in done : x <= j
    IN  [chosen |-> [k \in {order[j] : j \in 1..n} |->
                        IF \E j \in done : order[j] = k
                        THEN select(kind, unwrap(resolved[k])).selected_match ELSE None],
         resolved_counter |-> Cardinality(done),
         invalid |-> bad # {},
         selection |-> IF final = 0 THEN None ELSE Some(sel(final))]

\* if !skip_resolving { let resolved_functions = match resolved_selectors.get(..) .. }
DecResolveFunction ==
    /\ dec.pc = "resolve"
    /\ \E lookup \in Lookups :
       \E compatible \in (IF lookup = None THEN {{}} ELSE Compatible(unwrap(lookup))) :
          dec' = resolve_function(dec, lookup, compatible)
    /\ UNCHANGED <<rec, prev, call, ffi, copies>>

\* for (error_selector, _) in analyzed_function.errors.clone() { .. }
DecResolveErrors ==
    /\ dec.pc = "errors"
    /\ LET errors == unwrap(dec.analyzed_function).errors
       IN  \E order \in Orders(DOMAIN errors) : \E resolved \in [DOMAIN errors -> Lookups] :
           \E r \in {resolve_signatures("error", order, resolved)} :
              dec' = IF r.invalid
                     THEN [dec EXCEPT
                             !.pc = "exit",
                             !.analyzed_function[1].errors =
                                 [k \in DOMAIN errors |->
                                     IF r.chosen[k] = None THEN errors[k] ELSE r.chosen[k]],
                             !.selection = r.selection]
                     ELSE [dec EXCEPT
                             !.pc = "events",
                             !.analyzed_function[1].errors =
                                 [k \in DOMAIN errors |->
                                     IF r.chosen[k] = None THEN errors[k] ELSE r.chosen[k]],
                             !.selection = IF r.selection = None THEN @ ELSE r.selection,
                             !.trace = IF r.resolved_counter > 0
                                          THEN Append(@, <<"info", dec.selectors[dec.i],
                                                           r.resolved_counter>>)
                                          ELSE @]
    /\ UNCHANGED <<rec, prev, call, ffi, copies>>

\* for (event_selector, (_, raw_event)) in analyzed_function.events.clone() { .. }
DecResolveEvents ==
    /\ dec.pc = "events"
    /\ LET events == unwrap(dec.analyzed_function).events
       IN  \E order \in Orders(DOMAIN events) : \E resolved \in [DOMAIN events -> Lookups] :
           \E r \in {resolve_signatures("event", order, resolved)} :
              dec' = IF r.invalid
                     THEN [dec EXCEPT
                             !.pc = "exit",
                             !.analyzed_function[1].events =
                                 [k \in DOMAIN events |->
                                     IF r.chosen[k] = None THEN events[k]
                                     ELSE <<r.chosen[k], events[k][2]>>],
                             !.selection = r.selection]
                     ELSE [dec EXCEPT
                             !.pc = "push",
                             !.analyzed_function[1].events =
                                 [k \in DOMAIN events |->
                                     IF r.chosen[k] = None THEN events[k]
                                     ELSE <<r.chosen[k], events[k][2]>>],
                             !.selection = IF r.selection = None THEN @ ELSE r.selection,
                             !.trace = IF r.resolved_counter > 0
                                          THEN Append(@, <<"info", dec.selectors[dec.i],
                                                           r.resolved_counter>>)
                                          ELSE @]
    /\ UNCHANGED <<rec, prev, call, ffi, copies>>

push_front(v, x) == <<x>> \o v

\* Vec::push, as in analyzed_functions.push(analyzed_function.clone())
push(v, x) == Append(v, x)

\* analyzed_functions.push(analyzed_function.clone())
DecPush ==
    /\ dec.pc = "push"
    /\ dec' = [dec EXCEPT !.pc = "loop", !.i = @ + 1,
                          !.analyzed_functions = push(@, unwrap(dec.analyzed_function)),
                          !.analyzed_function = None]
    /\ UNCHANGED <<rec, prev, call, ffi, copies>>

\* build_output(output_dir, analyzed_functions, ..)
DecBuildOutput ==
    /\ dec.pc = "loop"
    /\ dec.i > Len(dec.selectors)
    /\ dec' = [dec EXCEPT !.pc = "done", !.output = Some(dec.analyzed_functions)]
    /\ UNCHANGED <<rec, prev, call, ffi, copies>>

NextDecompile ==
    \/ DecResolveEntryPoint
    \/ DecCheckEntryPoint
    \/ DecMapSelector
    \/ DecAnalyze
    \/ DecPush
    \/ DecBuildOutput

SpecDecompile == InitDecompile /\ [][NextDecompile]_vars

-----------------------------------------------------------------------------
(* The analyzer's traversal of one function's branch map, step by step:    *)
(* function is the entry after the evidence seen, before the entry one     *)
(* step earlier.                                                           *)

InitAnalyze ==
    /\ rec = NewInput(AP({}), None, FALSE)
    /\ prev = rec
    /\ call = NoCall
    /\ ffi = <<>>
    /\ copies = <<>>
    /\ dec \in {[pc |-> "traverse", function |-> NewFunction(selector, e),
                  before |-> NewFunction(selector, e), seen |-> <<>>] :
                   selector \in Selectors, e \in EntryPoints \ {0}}

\* the analyzer meets one more piece of evidence
AnalyzeObserve ==
    /\ dec.pc = "traverse"
    /\ Len(dec.seen) < MaxEvidence
    /\ \E e \in Evidence :
          dec' = [dec EXCEPT !.function = observe(@, e), !.before = dec.function,
                             !.seen = Append(@, e)]
    /\ UNCHANGED <<rec, prev, call, ffi, copies>>

\* the traversal is over: map.analyze returns the function
AnalyzeReturn ==
    /\ dec.pc = "traverse"
    /\ dec' = [dec EXCEPT !.pc = "returned"]
    /\ UNCHANGED <<rec, prev, call, ffi, copies>>

NextAnalyze == AnalyzeObserve \/ AnalyzeReturn

SpecAnalyze == InitAnalyze /\ [][NextAnalyze]_vars

-----------------------------------------------------------------------------
(* Properties of the mutators (checked under Spec) *)

\* a mutation: mutate, mutate_env_with_access_pattern, or a mutator called by itself
IsMutation == call.op \in {"mutate", "mutate_env", "mutator"}

\* a mutation that picks its mutator by the access pattern
ThroughPattern == call.op \in {"mutate", "mutate_env"}

\* the access pattern records that the field of this mutator was read
ReadFlag(ap, name) ==
    CASE name = "caller" -> ap.caller
      [] name = "balance" -> ap.balance # <<>>
      [] name = "call_value" -> ap.call_value
      [] name = "gas_price" -> ap.gas_price
      [] name = "basefee" -> ap.basefee
      [] name = "timestamp" -> ap.timestamp
      [] name = "coinbase" -> ap.coinbase
      [] name = "gas_limit" -> ap.gas_limit
      [] name = "number" -> ap.number
      [] name = "chain_id" -> ap.chain_id
      [] name = "prevrandao" -> ap.prevrandao

\* C1: after a call of the call_value mutator that returns Mutated, whatever the byte
\* mutator left, txn_value is set and the 16 most significant bytes of its big-endian
\* encoding are zero (txn_value < 2^128). A call that returns Skipped is not held to
\* this: it leaves txn_value as it was, a value stored through set_txn_value included.
C1_CallValueTopBytesZero ==
    (call.ran = "call_value" /\ call.res = "Mutated") =>
        (is_some(rec.txn_value) /\ TopBytesZero(unwrap(rec.txn_value)))

\* C2: whenever mutate, mutate_env_with_access_pattern or the environment mutator
\* it ran returns Skipped, every field of the record is as it was before the call.
C2_SkippedLeavesRecord == (IsMutation /\ call.res = "Skipped") => rec = prev

C2_Witness ==
    /\ call.op = "mutate"
    /\ call.res = "Skipped"
    /\ call.ran = "coinbase"
    /\ call.addr = prev.caller
    /\ prev.env.block.coinbase # prev.caller

\* C3 as stated: a mutator runs in mutate_env_with_access_pattern only if the access
\* pattern records that its field was read.
C3_Original ==
    (ThroughPattern /\ call.ran # "none") => ReadFlag(prev.access_pattern, call.ran)

\* C3 amended: a mutator runs only if the access pattern records that its field was
\* read, except call_value, which also runs when txn_value is set.
C3_RunsOnlyIfReadOrValueSet ==
    (ThroughPattern /\ call.ran # "none") =>
        \/ ReadFlag(prev.access_pattern, call.ran)
        \/ (call.ran = "call_value" /\ is_some(prev.txn_value))

C3_Witness ==
    /\ call.op = "mutate_env"
    /\ call.ran = "call_value"
    /\ call.res = "Mutated"
    /\ ~prev.access_pattern.call_value
    /\ is_some(prev.txn_value)

\* C4 as stated: mutate on an input without payload always mutates the environment,
\* whatever is_cuda; with a payload it mutates the environment or the payload, not both.
C4_Original ==
    call.op = "mutate" =>
        /\ ~is_some(prev.data) => call.path = "env"
        /\ is_some(prev.data) => call.path \in {"env", "payload"}

\* C4 amended: mutate on an input without payload mutates the environment when
\* is_cuda is false, and does nothing and returns Skipped when is_cuda is true; with a
\* payload it mutates either the environment (the payload is left alone) or the
\* payload (everything else is left alone), and always the payload when is_cuda is true.
C4_MutateBranches ==
    call.op = "mutate" =>
        /\ (~is_some(prev.data) /\ ~prev.is_cuda) => call.path = "env"
        /\ (~is_some(prev.data) /\ prev.is_cuda) =>
               (call.path = "none" /\ call.res = "Skipped" /\ rec = prev)
        /\ is_some(prev.data) =>
               /\ call.path \in {"env", "payload"}
               /\ call.path = "env" => rec.data = prev.data
               /\ call.path = "payload" =>
                      (call.ran = "none" /\ [rec EXCEPT !.data = prev.data] = prev)
               /\ prev.is_cuda => call.path = "payload"

C4_Witness ==
    /\ call.op = "mutate"
    /\ ~is_some(prev.data)
    /\ ~prev.is_cuda
    /\ call.path = "env"
    /\ call.res = "Mutated"
    /\ rec # prev

\* nothing but caller and env.block.timestamp differs between a and b
OnlyTimestampAndCallerDiffer(a, b) ==
    [b EXCEPT !.caller = a.caller, !.env.block.timestamp = a.env.block.timestamp] = a

\* C5 as stated: with exactly timestamp and caller in the access pattern, whatever the
\* payload and txn_value, a mutate call changes nothing but env.block.timestamp and caller.
C5_Original ==
    (call.op = "mutate" /\ prev.access_pattern = AP({"timestamp", "caller"})) =>
        OnlyTimestampAndCallerDiffer(prev, rec)

\* C5 amended: with exactly timestamp and caller in the access pattern, no payload and
\* txn_value None, a mutate call changes nothing but env.block.timestamp and caller
\* (and leaves the payload and txn_value None, so this holds of any sequence of them).
C5_OnlyTimestampAndCaller ==
    (/\ call.op = "mutate"
     /\ prev.access_pattern = AP({"timestamp", "caller"})
     /\ ~is_some(prev.data)
     /\ ~is_some(prev.txn_value)) =>
        /\ OnlyTimestampAndCallerDiffer(prev, rec)
        /\ ~is_some(rec.data)
        /\ ~is_some(rec.txn_value)

C5_Witness ==
    /\ call.op = "mutate"
    /\ prev.access_pattern = AP({"timestamp", "caller"})
    /\ ~is_some(prev.data)
    /\ ~is_some(prev.txn_value)
    /\ call.ran = "timestamp"
    /\ call.res = "Mutated"
    /\ rec.env.block.timestamp # prev.env.block.timestamp
    /\ rec.caller # Addr(1)

\* the field an address mutator writes
AddressField(r, name) == IF name = "caller" THEN r.caller ELSE r.env.block.coinbase

\* C6: the caller and coinbase mutators return Skipped exactly when the drawn address
\* equals the current value of the field the mutator writes; otherwise the field is
\* set to the drawn address, Mutated is returned, and the field has changed.
C6_SkippedIffFieldEqualsDrawn ==
    (IsMutation /\ call.ran \in {"caller", "coinbase"}) =>
        /\ call.res = "Skipped" <=> call.addr = AddressField(prev, call.ran)
        /\ call.res = "Mutated" =>
               /\ AddressField(rec, call.ran) = call.addr
               /\ AddressField(rec, call.ran) # AddressField(prev, call.ran)

\* C16: no mutation (mutate, mutate_env_with_access_pattern, or the environment
\* mutator it runs) writes the input's access pattern: whatever the outcomes, the
\* access pattern behind the handle is after every step what it was before.
C16_AccessPatternNotWritten ==
    [][/\ rec'.access_pattern = rec.access_pattern
       /\ rec'.access_pattern_rc = rec.access_pattern_rc]_vars

C16_Witness ==
    /\ call.op = "mutate_env"
    /\ call.ran = "caller"
    /\ call.res = "Mutated"
    /\ rec.caller # prev.caller
    /\ rec.access_pattern = AP({"coinbase", "caller"})

U256Mutators == {"basefee", "timestamp", "gas_limit", "number", "chain_id"}

\* the field a 256-bit environment mutator writes
U256Field(r, name) ==
    IF name = "chain_id" THEN r.env.cfg.chain_id ELSE r.env.block[name]

\* C18: for each 256-bit environment mutator, whatever vector the byte mutator leaves
\* with result Mutated (its length changed or not), decoding it as big-endian
\* succeeds and the field afterwards is the big-endian value of the vector; and
\* decoding the 32 bytes the field serializes to gives the field back.
C18_DecodesBack ==
    (IsMutation /\ call.ran \in U256Mutators) =>
        /\ call.res \in {"Mutated", "Skipped"}
        /\ call.res = "Mutated" =>
               \E u \in Ruints :
                   try_from_be_slice(call.vec, u) = Some(U256Field(rec, call.ran))
        /\ Len(to_be_bytes(U256Field(prev, call.ran))) = U256Bytes
        /\ \A u \in Ruints :
               try_from_be_slice(to_be_bytes(U256Field(prev, call.ran)), u)
                   = Some(U256Field(prev, call.ran))

\* the access pattern enables nothing but gas_price, prevrandao and balance
OnlyUnsupported(ap) ==
    \A k \in 1..Len(MutatorNames) :
        ReadFlag(ap, MutatorNames[k]) =>
            MutatorNames[k] \in {"gas_price", "prevrandao", "balance"}

\* C19: the gas_price, prevrandao and balance mutators always return Skipped and
\* change nothing; mutate_env_with_access_pattern returns Skipped and changes nothing
\* when no mutator is enabled; so a mutate call on an input with no payload, txn_value
\* None and an access pattern that enables only those three is never Mutated, and
\* leaves the input as it was (so the next call finds the same).
C19_UnsupportedNeverMutate ==
    /\ (IsMutation /\ call.ran \in {"gas_price", "prevrandao", "balance"}) =>
           (call.res = "Skipped" /\ rec = prev)
    /\ (call.op = "mutate_env" /\ Mutators(prev) = <<>>) =>
           (call.res = "Skipped" /\ call.ran = "none" /\ rec = prev)
    /\ (/\ call.op = "mutate"
        /\ ~is_some(prev.data)
        /\ ~is_some(prev.txn_value)
        /\ OnlyUnsupported(prev.access_pattern)) =>
           (call.res = "Skipped" /\ rec = prev)

C19_Witness ==
    /\ call.op = "mutate"
    /\ call.ran = "gas_price"
    /\ call.res = "Skipped"
    /\ ~is_some(prev.data)
    /\ ~is_some(prev.txn_value)
    /\ prev.access_pattern = AP({"gas_price", "prevrandao", "balance"})

\* C20: set_step(gate) clears the transaction value whatever gate is: afterwards
\* txn_value is None and step is gate, no other field has changed, and the call_value
\* mutator is enabled only if the access pattern's call_value flag is set.
C20_SetStepClearsValue ==
    /\ call.op = "set_step" =>
          /\ rec.txn_value = None
          /\ rec.step = unwrap(call.gate)
          /\ [rec EXCEPT !.txn_value = prev.txn_value, !.step = prev.step] = prev
          /\ InSeq("call_value", Mutators(rec)) <=> rec.access_pattern.call_value
    /\ (call.op = "mutate_env" /\ call.ran = "call_value" /\ ~is_some(prev.txn_value)) =>
          prev.access_pattern.call_value

C20_Witness ==
    /\ call.op = "set_step"
    /\ call.gate = Some(FALSE)
    /\ is_some(prev.txn_value)
    /\ prev.step
    /\ rec.txn_value = None
    /\ ~rec.step
    /\ ~InSeq("call_value", Mutators(rec))

\* the records there are: rec and the copies made of it
Records == <<rec>> \o copies

\* C17: access-pattern handles are per input: no two distinct records, a record and a
\* copy made of it with Clone included, hold the same access-pattern handle.
C17_HandlesPerInput ==
    \A a, b \in 1..Len(Records) :
        a # b => Records[a].access_pattern_rc # Records[b].access_pattern_rc

-----------------------------------------------------------------------------
(* Properties of the bridge (checked under SpecBridge) *)

\* bytes is the 32-byte little-endian encoding of v
IsLittleEndianOf(bytes, v) ==
    /\ Len(bytes) = U256Bytes
    /\ \A u \in Ruints : try_from_be_slice(Reverse(bytes), u) = Some(v)

TxnValueOrZero(r) == IF is_some(r.txn_value) THEN unwrap(r.txn_value) ELSE ZERO

\* the bytes of slot k (key, then value) in what cu_load_storage passes
SlotsLittleEndian(bytes, storage) ==
    /\ Len(bytes) = 2 * U256Bytes * Len(storage)
    /\ \A k \in 1..Len(storage) :
          /\ IsLittleEndianOf(SubSeq(bytes, 2 * U256Bytes * (k - 1) + 1,
                                     2 * U256Bytes * (k - 1) + U256Bytes), storage[k][1])
          /\ IsLittleEndianOf(SubSeq(bytes, 2 * U256Bytes * (k - 1) + U256Bytes + 1,
                                     2 * U256Bytes * k), storage[k][2])

\* what C7 says of the three cu_load operations
MarshalledLittleEndianCuLoad ==
    /\ call.op = "cu_load_evm_env" =>
          /\ ffi[1].args[1] = Reverse(rec.contract)
          /\ IsLittleEndianOf(ffi[1].args[2], rec.env.block.timestamp)
          /\ IsLittleEndianOf(ffi[1].args[3], rec.env.block.number)
    /\ call.op = "cu_load_input" =>
          /\ ffi[Len(ffi)].args[1] = Reverse(rec.caller)
          /\ IsLittleEndianOf(ffi[Len(ffi)].args[2], TxnValueOrZero(rec))
    /\ (call.op = "cu_load_storage" /\ is_some(rec.sstate)) =>
          SlotsLittleEndian(ffi[1].args[1], unwrap(rec.sstate))

\* C7: every bridge operation (cu_load_evm_env, cu_load_input, cu_load_storage,
\* set_evm_env) passes each 256-bit integer as its 32-byte little-endian encoding and
\* each address as the byte-reversal of its big-endian form.
C7_MarshalledLittleEndian ==
    /\ MarshalledLittleEndianCuLoad
    /\ call.op = "set_evm_env" =>
          /\ ffi[1].args[1] = Reverse(rec.caller)
          /\ ffi[1].args[2] = Reverse(rec.contract)
          /\ IsLittleEndianOf(ffi[1].args[3], rec.env.block.timestamp)
          /\ IsLittleEndianOf(ffi[1].args[4], rec.env.block.number)

\* the calls of native symbols among the events
NativeCalls(events) == SelectSeq(events, LAMBDA e : e.kind = "call")

\* C8: cu_load_input calls cuLoadSeed exactly once, as its last step and with the full
\* calldata length, whatever that length; the SEED_SIZE message is printed, before
\* the call, exactly when 68 + calldata length exceeds SEED_SIZE.
C8_SeedLoadedOnce ==
    call.op = "cu_load_input" =>
        LET n == IF is_some(rec.data) THEN Len(unwrap(rec.data)) ELSE Len(rec.direct_data)
        IN  /\ Len(NativeCalls(ffi)) = 1
            /\ ffi[Len(ffi)].fn = "cuLoadSeed"
            /\ ffi[Len(ffi)].args[3] = (IF is_some(rec.data) THEN unwrap(rec.data)
                                                              ELSE rec.direct_data)
            /\ ffi[Len(ffi)].args[4] = n
            /\ (SeedHeader + n > SEED_SIZE) => (Len(ffi) = 2 /\ ffi[1].kind = "println")
            /\ (SeedHeader + n <= SEED_SIZE) => Len(ffi) = 1

C8_Witness ==
    /\ call.op = "cu_load_input"
    /\ SeedHeader + Len(get_calldata(rec)) > SEED_SIZE
    /\ Len(ffi) = 2
    /\ ffi[2].fn = "cuLoadSeed"

\* C9: when setEVMEnv returns false the operation reports the failure: the input is
\* dropped with outcome Skipped and the failure is logged once.
C9_FailureObserved ==
    (call.op \in {"cu_load_evm_env", "set_evm_env"} /\ ffi[1].ret = "false") =>
        /\ call.res = "Skipped"
        /\ Len(SelectSeq(ffi, LAMBDA e : e.kind = "println")) = 1

-----------------------------------------------------------------------------
(* Properties of the decompiler's loop (checked under SpecDecompile) *)

HasFunction(fs, selector) == \E k \in 1..Len(fs) : fs[k].selector = selector

\* C10: a selector whose entry point resolves to 0 is flagged as a false positive and
\* skipped (never executed symbolically, never analyzed, no function record), the
\* selectors after it are still processed, and no function in the list has entry_point 0.
C10_FalsePositiveSkipped ==
    /\ \A k \in 1..Len(dec.analyzed_functions) : dec.analyzed_functions[k].entry_point # 0
    /\ \A j \in 1..Len(dec.entry_points) :
          (dec.entry_points[j] = 0 /\ j < dec.i) =>
              /\ ~InSeq(dec.selectors[j], dec.executed)
              /\ ~InSeq(dec.selectors[j], dec.analyzed)
              /\ ~HasFunction(dec.analyzed_functions, dec.selectors[j])
              /\ InSeq(<<"error", dec.selectors[j], "selector flagged as false-positive.">>,
                       dec.trace)
    /\ dec.pc = "done" =>
          /\ Len(dec.entry_points) = Len(dec.selectors)
          /\ \A j \in 1..Len(dec.selectors) :
                dec.entry_points[j] # 0 <=> HasFunction(unwrap(dec.output), dec.selectors[j])
          /\ \A k \in 1..Len(unwrap(dec.output)) : unwrap(dec.output)[k].entry_point # 0

C10_Witness ==
    /\ dec.pc = "done"
    /\ dec.entry_points = <<64, 0, 64>>
    /\ Len(unwrap(dec.output)) = 2
    /\ unwrap(dec.output)[2].selector = dec.selectors[3]

\* the selectors of a list of functions, in the list's order
FunctionSelectors(fs) == [k \in 1..Len(fs) |-> fs[k].selector]

\* s is t with some elements left out, the order kept
RECURSIVE IsSubsequence(_, _)
IsSubsequence(s, t) ==
    IF s = <<>> THEN TRUE
    ELSE IF t = <<>> THEN FALSE
    ELSE IF Head(s) = Head(t) THEN IsSubsequence(Tail(s), Tail(t))
    ELSE IsSubsequence(s, Tail(t))

\* the selectors among the first n whose entry point is not 0, in discovery order
RECURSIVE Kept(_, _, _)
Kept(selectors, entry_points, n) ==
    IF n = 0 THEN <<>>
    ELSE Kept(selectors, entry_points, n - 1)
         \o (IF entry_points[n] # 0 THEN <<selectors[n]>> ELSE <<>>)

\* C11: the analyzed functions are in selector-discovery order (their selectors are a
\* subsequence of the selector list, each selector giving at most one function), and
\* selectors are handled strictly one after another: a selector's symbolic execution
\* is over before its analysis starts, and both before the next selector begins.
C11_DiscoveryOrder ==
    /\ IsSubsequence(FunctionSelectors(dec.analyzed_functions), dec.selectors)
    /\ \A a, b \in 1..Len(dec.analyzed_functions) :
          a # b => dec.analyzed_functions[a].selector # dec.analyzed_functions[b].selector
    /\ IsSubsequence(dec.analyzed, dec.executed)
    /\ Len(dec.executed) - Len(dec.analyzed) = (IF dec.pc = "analyze" THEN 1 ELSE 0)
    /\ Len(dec.analyzed) - Len(dec.analyzed_functions) = (IF dec.pc = "push" THEN 1 ELSE 0)
    /\ dec.pc = "analyze" => dec.executed[Len(dec.executed)] = dec.selectors[dec.i]
    /\ dec.pc \in {"loop", "done"} =>
          FunctionSelectors(dec.analyzed_functions)
              = Kept(dec.selectors, dec.entry_points, dec.i - 1)
    /\ dec.pc = "done" =>
          /\ unwrap(dec.output) = dec.analyzed_functions
          /\ dec.i = Len(dec.selectors) + 1

C11_Witness ==
    /\ dec.pc = "done"
    /\ dec.selectors = <<2, 3, 1>>
    /\ FunctionSelectors(unwrap(dec.output)) = <<2, 1>>

\* nothing of the function has a resolved signature
Unresolved(f) ==
    /\ f.resolved_function = None
    /\ \A k \in DOMAIN f.errors : f.errors[k] = None
    /\ \A k \in DOMAIN f.events : f.events[k][1] = None

\* C21: decompile_with_bytecode never resolves signatures: skip-resolving and default
\* selection are fixed on, no function, error or event resolver is called and no
\* selection is made, every function of the list has resolved_function = None, and
\* the returned list holds exactly one function per discovered selector with a
\* nonzero entry point.
C21_NeverResolves ==
    /\ dec.skip_resolving /\ default_val
    /\ ~dec.resolver_called
    /\ dec.pc \notin {"resolve", "errors", "events", "exit"}
    /\ dec.lookups = <<>>
    /\ dec.selection = None
    /\ \A k \in 1..Len(dec.analyzed_functions) : Unresolved(dec.analyzed_functions[k])
    /\ dec.analyzed_function # None => Unresolved(unwrap(dec.analyzed_function))
    /\ dec.pc = "done" =>
          /\ \A k \in 1..Len(unwrap(dec.output)) : Unresolved(unwrap(dec.output)[k])
          /\ FunctionSelectors(unwrap(dec.output))
                = Kept(dec.selectors, dec.entry_points, Len(dec.selectors))
          /\ \A j \in 1..Len(dec.selectors) :
                Cardinality({k \in 1..Len(unwrap(dec.output)) :
                               unwrap(dec.output)[k].selector = dec.selectors[j]})
                  = (IF dec.entry_points[j] # 0 THEN 1 ELSE 0)

C21_Witness ==
    /\ dec.pc = "done"
    /\ dec.selectors = <<3, 1, 2>>
    /\ dec.entry_points = <<64, 64, 0>>
    /\ Len(unwrap(dec.output)) = 2
    /\ DOMAIN unwrap(dec.output)[1].errors # {}
    /\ DOMAIN unwrap(dec.output)[2].events # {}
    /\ unwrap(dec.output)[1].resolved_function = None
    /\ unwrap(dec.output)[2].resolved_function = None

-----------------------------------------------------------------------------
(* Properties of the analyzer's flags (checked under SpecAnalyze) *)

\* C15: a function entry starts its analysis with (pure, view, payable) = (true, true,
\* false), and at every point of the traversal pure implies view, pure and view never
\* go from false back to true, and payable never goes from true back to false.
C15_FlagsMonotone ==
    /\ dec.seen = <<>> =>
          (dec.function.pure /\ dec.function.view /\ ~dec.function.payable)
    /\ dec.function.pure => dec.function.view
    /\ dec.function.pure => dec.before.pure
    /\ dec.function.view => dec.before.view
    /\ dec.before.payable => dec.function.payable

====
